---- MODULE Spec2Model ----
\* A model of examples/factorial.py: the function calculate_factorial, executed
\* statement by statement, and the module's two ways of being run: as a script
\* (the __main__ demonstration block) and as an imported module whose function
\* is called by an arbitrary caller with arbitrary integers.
EXTENDS Integers, Sequences, FiniteSets, TLC

\* ---------------------------------------------------------------- bounds

\* Largest argument the importing caller passes.
MaxN == 5
\* The importing caller passes the negative arguments -NegDepth .. -1.
NegDepth == 2

Inputs == (0 - NegDepth)..MaxN

VARIABLES
    name,              \* the module's __name__
    mpc,               \* position of the module-level code / of the caller
    stmt,              \* which of the three statements of the try block runs
    stdout,            \* the lines printed so far
    pc,                \* position inside calculate_factorial
    number,            \* the parameter of the current call
    bound,             \* the local names bound in the current frame
    factorial_result,  \* the accumulator (meaningful when bound)
    i,                 \* the loop variable (meaningful when bound)
    range_iter,        \* the values the range iterator has yet to yield
    outcome,           \* how the current call ended
    mults,             \* history: the multipliers applied in the current call
    seen               \* history: the first outcome observed for each argument

vars == <<name, mpc, stmt, stdout, pc, number, bound, factorial_result, i,
          range_iter, outcome, mults, seen>>

frame == <<number, bound, factorial_result, i, range_iter, mults>>
main  == <<name, mpc, stmt, stdout>>

\* ---------------------------------------------------------------- values

None == [kind |-> "none"]
Returned(v) == [kind |-> "return", value |-> v]
Raised(e, m) == [kind |-> "raise", exc |-> e, message |-> m]

\* line 14: if number < 0
\* (variant: the test written against -1)
IsNegativeOffByOne(n) == n < -1
IsNegative(n) == n < 0

\* line 15: raise ValueError("Factorial is not defined for negative numbers")
\* (variant: another exception class raised)
ErrorTypeWrong == "TypeError"
ErrorType == "ValueError"
ErrorMessage == "Factorial is not defined for negative numbers"

\* line 16: if number == 0
\* (variant: the early return left out)
IsZeroNever(n) == FALSE
IsZero(n) == n = 0

\* line 17: return 1
ZeroResult == 1

\* line 19: factorial_result = 1
\* (variants: the accumulator started at 0, as for a sum; the accumulator
\* taken from what an earlier call on the same argument left)
AccInitZero == 1 - 1
AccInitCached == IF seen[number].kind = "return" THEN seen[number].value ELSE 1
AccInit == 1

\* line 20: range(1, number + 1)
\* (variants: range(0, ...); range(1, number); the values taken downwards)
RangeStartZero == 1 - 1
RangeStart == 1
RangeStopExclusive(n) == n
RangeStop(n) == n + 1
RangeDescending(start, stop) ==
    IF stop > start THEN [k \in 1..(stop - start) |-> stop - k] ELSE <<>>
Range(start, stop) ==
    IF stop > start THEN [k \in 1..(stop - start) |-> start + k - 1] ELSE <<>>

\* line 21: factorial_result *= i
\* (variants: += for *=; = for *=)
MulAdd(acc, k) == acc + k
MulAssign(acc, k) == k
Mul(acc, k) == acc * k

\* str() of an int, as the f-strings of lines 29, 32 and 35 apply it.
DigitChar(d) ==
    CASE d = 0 -> "0" [] d = 1 -> "1" [] d = 2 -> "2" [] d = 3 -> "3"
      [] d = 4 -> "4" [] d = 5 -> "5" [] d = 6 -> "6" [] d = 7 -> "7"
      [] d = 8 -> "8" [] d = 9 -> "9"

RECURSIVE NatStr(_)
NatStr(n) == IF n < 10 THEN DigitChar(n) ELSE NatStr(n \div 10) \o DigitChar(n % 10)

IntStr(n) == IF n < 0 THEN "-" \o NatStr(0 - n) ELSE NatStr(n)

\* lines 29, 32, 35: f"The factorial of {num} is {calculate_factorial(num)}"
SuccessLine(n, r) == "The factorial of " \o IntStr(n) \o " is " \o IntStr(r)

\* line 37: f"Error: {e}"
ErrorLine(m) == "Error: " \o m

\* lines 28, 31, 34: num = 5, num_zero = 0, num_negative = -1
DemoArgs == <<5, 0, -1>>

\* ---------------------------------------------------------------- the function

\* A call: a fresh frame with only the parameter bound.
Enter(n) ==
    /\ pc' = "line14"
    /\ number' = n
    /\ bound' = {"number"}
    /\ factorial_result' = 0
    /\ i' = 0
    /\ range_iter' = <<>>
    /\ mults' = <<>>
    /\ outcome' = None

\* lines 14-15
CheckNegative ==
    /\ pc = "line14"
    /\ IF IsNegative(number)
       THEN /\ pc' = "raised"
            /\ outcome' = Raised(ErrorType, ErrorMessage)
       ELSE /\ pc' = "line16"
            /\ outcome' = outcome
    /\ UNCHANGED <<frame, main, seen>>

\* lines 16-17
CheckZero ==
    /\ pc = "line16"
    /\ IF IsZero(number)
       THEN /\ pc' = "returned"
            /\ outcome' = Returned(ZeroResult)
       ELSE /\ pc' = "line19"
            /\ outcome' = outcome
    /\ UNCHANGED <<frame, main, seen>>

\* line 19
InitAccumulator ==
    /\ pc = "line19"
    /\ factorial_result' = AccInit
    /\ bound' = bound \cup {"factorial_result"}
    /\ pc' = "line20"
    /\ UNCHANGED <<number, i, range_iter, mults, outcome, main, seen>>

\* line 20, entering the loop: range(1, number + 1) is evaluated once
ForSetup ==
    /\ pc = "line20"
    /\ range_iter' = Range(RangeStart, RangeStop(number))
    /\ pc' = "line20next"
    /\ UNCHANGED <<number, bound, factorial_result, i, mults, outcome, main, seen>>

\* line 20, each time round: the next value is bound to i, or the loop ends
ForNext ==
    /\ pc = "line20next"
    /\ IF range_iter = <<>>
       THEN /\ pc' = "line23"
            /\ UNCHANGED <<i, bound, range_iter>>
       ELSE /\ i' = Head(range_iter)
            /\ bound' = bound \cup {"i"}
            /\ range_iter' = Tail(range_iter)
            /\ pc' = "line21"
    /\ UNCHANGED <<number, factorial_result, mults, outcome, main, seen>>

\* line 21
Multiply ==
    /\ pc = "line21"
    /\ factorial_result' = Mul(factorial_result, i)
    /\ mults' = Append(mults, i)
    /\ pc' = "line20next"
    /\ UNCHANGED <<number, bound, i, range_iter, outcome, main, seen>>

\* line 23
Return ==
    /\ pc = "line23"
    /\ outcome' = Returned(factorial_result)
    /\ pc' = "returned"
    /\ UNCHANGED <<frame, main, seen>>

FunctionStep ==
    \/ CheckNegative
    \/ CheckZero
    \/ InitAccumulator
    \/ ForSetup
    \/ ForNext
    \/ Multiply
    \/ Return

\* ---------------------------------------------------------------- module level

\* line 25: if __name__ == "__main__"
RunModule ==
    /\ mpc = "line25"
    /\ mpc' = IF name = "__main__" THEN "try" ELSE "imported"
    /\ UNCHANGED <<name, stmt, stdout, pc, frame, outcome, seen>>

\* lines 28-29, 31-32, 34-35: the assignment and the call inside print(...)
MainCall ==
    /\ mpc = "try"
    /\ pc = "idle"
    /\ Enter(DemoArgs[stmt])
    /\ mpc' = "calling"
    /\ UNCHANGED <<name, stmt, stdout, seen>>

\* lines 29, 32, 35: the call returned, the line is printed
MainPrint ==
    /\ mpc = "calling"
    /\ pc = "returned"
    /\ stdout' = Append(stdout, SuccessLine(DemoArgs[stmt], outcome.value))
    /\ pc' = "idle"
    /\ IF stmt < Len(DemoArgs)
       THEN /\ stmt' = stmt + 1
            /\ mpc' = "try"
       ELSE /\ stmt' = stmt
            /\ mpc' = "done"
    /\ UNCHANGED <<name, frame, outcome, seen>>

\* lines 36-37: except ValueError as e: print(f"Error: {e}")
MainExcept ==
    /\ mpc = "calling"
    /\ pc = "raised"
    /\ pc' = "idle"
    /\ IF outcome.exc = "ValueError"
       THEN /\ stdout' = Append(stdout, ErrorLine(outcome.message))
            /\ mpc' = "done"
       ELSE /\ stdout' = stdout
            /\ mpc' = "uncaught"
    /\ UNCHANGED <<name, stmt, frame, outcome, seen>>

\* The importing caller: any call, any number of times; what the previous call
\* gave is remembered for the first call on each argument.
Call(n) ==
    /\ mpc = "imported"
    /\ pc \in {"idle", "returned", "raised"}
    /\ seen' = IF pc # "idle" /\ seen[number] = None
               THEN [seen EXCEPT ![number] = outcome]
               ELSE seen
    /\ Enter(n)
    /\ UNCHANGED main

Init ==
    /\ name \in {"__main__", "factorial"}
    /\ mpc = "line25"
    /\ stmt = 1
    /\ stdout = <<>>
    /\ pc = "idle"
    /\ number = 0
    /\ bound = {}
    /\ factorial_result = 0
    /\ i = 0
    /\ range_iter = <<>>
    /\ outcome = None
    /\ mults = <<>>
    /\ seen = [n \in Inputs |-> None]

Next ==
    \/ RunModule
    \/ MainCall
    \/ MainPrint
    \/ MainExcept
    \/ \E n \in Inputs : Call(n)
    \/ CheckNegative
    \/ CheckZero
    \/ InitAccumulator
    \/ ForSetup
    \/ ForNext
    \/ Multiply
    \/ Return

Spec == Init /\ [][Next]_vars

MainStep ==
    \/ RunModule
    \/ MainCall
    \/ MainPrint
    \/ MainExcept

\* The interpreter runs a started call, and the script, to the end: no statement
\* waits on anything. The importing caller is free to stop calling.
FairSpec == Spec /\ WF_vars(FunctionStep) /\ WF_vars(MainStep)

\* ---------------------------------------------------------------- properties

Finished == pc \in {"returned", "raised"}

\* The mathematical factorial: the product of the integers 1..n.
RECURSIVE ProductTo(_)
ProductTo(n) == IF n <= 0 THEN 1 ELSE n * ProductTo(n - 1)

\* C1: a call on a negative number never gets past the test of line 14: it ends
\* raising ValueError with the message of line 15, returns no value, and neither
\* binds the accumulator, nor creates the loop, nor multiplies.
C1_NegativeRaisesFirst ==
    (number < 0 /\ pc # "idle") =>
        /\ pc \in {"line14", "raised"}
        /\ bound = {"number"}
        /\ range_iter = <<>>
        /\ mults = <<>>
        /\ (pc = "line14" => outcome = None)
        /\ (pc = "raised" =>
               outcome = [kind |-> "raise", exc |-> "ValueError",
                          message |-> "Factorial is not defined for negative numbers"])

C1_Witness == pc = "raised" /\ number = 0 - NegDepth /\ mpc = "imported"

\* C2: a call on n > 0 that has finished has returned the product 1 * 2 * ... * n.
C2_PositiveReturnsProduct ==
    (Finished /\ number > 0) => outcome = [kind |-> "return", value |-> ProductTo(number)]

C2_Witness == pc = "returned" /\ number = MaxN /\ outcome.value > MaxN

\* C3: a call on 0 returns 1 from line 17: it never reaches line 19 or the loop,
\* so the accumulator and the loop variable stay unbound and nothing is multiplied.
C3_ZeroReturnsEarly ==
    (number = 0 /\ pc # "idle") =>
        /\ pc \in {"line14", "line16", "returned"}
        /\ bound = {"number"}
        /\ range_iter = <<>>
        /\ mults = <<>>
        /\ (pc = "returned" => outcome = [kind |-> "return", value |-> 1])

C3_Witness == pc = "returned" /\ number = 0 /\ mpc = "imported"

\* C4: the values the calls returned satisfy the recurrence: every call on n >= 0
\* returned a value, the value for 0 is 1, and the value for n > 0 is n times the
\* value returned for n - 1.
C4_Recurrence ==
    \A n \in Inputs :
        (n >= 0 /\ seen[n] # None) =>
            /\ seen[n].kind = "return"
            /\ (n = 0 => seen[n].value = 1)
            /\ (n > 0 /\ seen[n - 1] # None =>
                   seen[n].value = n * seen[n - 1].value)

C4_Witness ==
    /\ seen[0] # None
    /\ seen[2] # None
    /\ seen[3] # None
    /\ seen[3].value = 3 * seen[2].value

\* C5: the values the calls returned are monotone: for n2 > n1 >= 0 the value
\* returned for n2 is at least the value returned for n1.
C5_Monotone ==
    \A n1, n2 \in Inputs :
        (0 <= n1 /\ n1 < n2 /\ seen[n1].kind = "return" /\ seen[n2].kind = "return") =>
            seen[n2].value >= seen[n1].value

C5_Witness ==
    /\ seen[0].kind = "return"
    /\ seen[1].kind = "return"
    /\ seen[4].kind = "return"
    /\ seen[4].value > seen[1].value

\* C6: a call that has finished ended the way the first call on the same argument
\* ended, whatever calls (failing ones among them) came in between.
C6_Deterministic ==
    (Finished /\ mpc = "imported" /\ seen[number] # None) => outcome = seen[number]

C6_Witness ==
    /\ pc = "returned"
    /\ mpc = "imported"
    /\ number = 3
    /\ seen[3] # None
    /\ seen[-1] # None
    /\ seen[2] # None

\* C7: run as a script, the module calls calculate_factorial on 5, then 0, then
\* -1, each call after the line of the one before is printed; what is printed is
\* at every moment the beginning of the three expected lines; the exception is
\* caught; and the script ends, with exactly those three lines printed.
DemoOutput ==
    <<"The factorial of 5 is 120",
      "The factorial of 0 is 1",
      "Error: Factorial is not defined for negative numbers">>

C7_DemoSafe ==
    name = "__main__" =>
        /\ mpc # "uncaught"
        /\ Len(stdout) <= 3
        /\ stdout = SubSeq(DemoOutput, 1, Len(stdout))
        /\ (mpc = "calling" => number = <<5, 0, -1>>[Len(stdout) + 1])
        /\ (mpc = "done" => stdout = DemoOutput)

C7_Demo == []C7_DemoSafe /\ (name = "__main__" ~> mpc = "done")

C7_Witness == name = "__main__" /\ mpc = "done" /\ Len(stdout) = 3

\* C8: the call on 5 returns 120; the call on 1 returns 1 after exactly one
\* multiplication, of the accumulator 1 by 1.
C8_Examples ==
    Finished =>
        /\ (number = 5 => outcome = [kind |-> "return", value |-> 120])
        /\ (number = 1 => /\ outcome = [kind |-> "return", value |-> 1]
                          /\ mults = <<1>>)

C8_Witness ==
    /\ pc = "returned"
    /\ number = 1
    /\ mpc = "imported"
    /\ seen[5] # None

\* C9: every call that starts finishes. The multipliers applied are at every
\* moment the beginning of 1, 2, ..., n; a call on n > 0 ends returning, after
\* exactly the n multiplications by 1, 2, ..., n; a call on n <= 0 ends after none.
C9_Multipliers ==
    /\ \A k \in 1..Len(mults) : mults[k] = k
    /\ Len(mults) <= (IF number > 0 THEN number ELSE 0)
    /\ (Finished => Len(mults) = (IF number > 0 THEN number ELSE 0))
    /\ (Finished /\ number > 0 => pc = "returned")

C9_Terminates == []C9_Multipliers /\ (pc = "line14" ~> Finished)

C9_Witness == pc = "returned" /\ number = MaxN /\ Len(mults) = MaxN

\* C10: in the loop the accumulator is bound to 1 before the first iteration and
\* to 1 * 2 * ... * i after the iteration with multiplier i; so it is at least 1
\* wherever it is bound, and no step of a call decreases it.
C10_AccumulatorIsProduct ==
    ("factorial_result" \in bound /\ pc # "idle") =>
        /\ factorial_result >= 1
        /\ (pc \in {"line20", "line20next"} /\ "i" \notin bound => factorial_result = 1)
        /\ (pc \in {"line20next", "line23", "returned"} /\ "i" \in bound =>
               /\ 1 <= i
               /\ i <= number
               /\ factorial_result = ProductTo(i))

C10_NeverDecreases ==
    ("factorial_result" \in bound /\ "factorial_result" \in bound') =>
        factorial_result' >= factorial_result

C10_LoopInvariant == []C10_AccumulatorIsProduct /\ [][C10_NeverDecreases]_vars

C10_Witness ==
    /\ pc = "line20next"
    /\ i = 3
    /\ factorial_result = 6
    /\ range_iter # <<>>

====
